---------------------------- MODULE Spec2Model ----------------------------
(***************************************************************************)
(* A model of the Eliza chatbot of src/eliza.go: the rule-file reader      *)
(* ReadReplacersFromFile, the loader ElizaFromFiles and the responder      *)
(* Eliza.RespondTo.                                                        *)
(*                                                                         *)
(* A Go string is a sequence of one-character strings, so that splitting,  *)
(* joining and textual replacement are computed and not assumed.           *)
(***************************************************************************)
EXTENDS Integers, Sequences, FiniteSets, TLC

(***************************************************************************)
(* Bounds of the model.                                                    *)
(***************************************************************************)
\* Longest rule file, in lines, read under SpecParse.
MaxLines == 5
\* Longest user input, in characters, given to RespondTo under Spec.
MaxInputLen == 4
\* Most lines of standard input, each answered by one call of RespondTo.
MaxCalls == 2

(***************************************************************************)
(* Strings.                                                                *)
(***************************************************************************)
Range(s) == {s[i] : i \in 1..Len(s)}

\* All sequences over S of length at most n.
RECURSIVE SeqsUpTo(_, _)
SeqsUpTo(S, n) ==
    IF n = 0 THEN {<<>>}
    ELSE LET shorter == SeqsUpTo(S, n - 1)
         IN  shorter \cup {Append(s, c) : s \in {x \in shorter : Len(x) = n - 1}, c \in S}

\* strings.HasPrefix(s, prefix)
HasPrefix(s, prefix) ==
    /\ Len(s) >= Len(prefix)
    /\ SubSeq(s, 1, Len(prefix)) = prefix

\* Does old occur in s at position i ?
OccursAt(s, old, i) ==
    /\ i + Len(old) - 1 <= Len(s)
    /\ SubSeq(s, i, i + Len(old) - 1) = old

\* strings.Replace(s, old, new, -1) for a non-empty old: the non-overlapping
\* occurrences of old, found left to right, are each replaced by new.
RECURSIVE ReplaceFrom(_, _, _, _)
ReplaceFrom(s, old, new, i) ==
    IF i > Len(s) THEN <<>>
    ELSE IF OccursAt(s, old, i) THEN new \o ReplaceFrom(s, old, new, i + Len(old))
    ELSE <<s[i]>> \o ReplaceFrom(s, old, new, i + 1)

Replace(s, old, new) == ReplaceFrom(s, old, new, 1)

\* strings.Join(elems, sep)
RECURSIVE JoinFrom(_, _, _)
JoinFrom(elems, sep, i) ==
    IF i > Len(elems) THEN <<>>
    ELSE IF i = Len(elems) THEN elems[i]
    ELSE elems[i] \o sep \o JoinFrom(elems, sep, i + 1)

Join(elems, sep) == JoinFrom(elems, sep, 1)

Digits == <<"0", "1", "2", "3", "4", "5", "6", "7", "8", "9">>

\* strconv.Itoa(n) for n >= 0
RECURSIVE Itoa(_)
Itoa(n) ==
    IF n < 10 THEN <<Digits[n + 1]>>
    ELSE Itoa(n \div 10) \o <<Digits[(n % 10) + 1]>>

(***************************************************************************)
(* Regular expressions (package regexp), for the fragment the rule files   *)
(* of the model use: literal characters, the dot, the assertions ^ and $   *)
(* and the capturing group of CapText.  A compiled expression keeps its    *)
(* source text (expr) and its program (prog), a sequence of instructions:  *)
(* "BOT", "EOT", "ANY", "CAP", or a one-character literal.                 *)
(***************************************************************************)
CapText == <<"(", ".", "*", ")">>

\* Is the text of line from position i on a well-formed expression ?  An
\* opening parenthesis that does not start CapText, a closing parenthesis on its
\* own and a repetition with nothing to repeat are syntax errors.
RECURSIVE ValidFrom(_, _)
ValidFrom(line, i) ==
    IF i > Len(line) THEN TRUE
    ELSE IF line[i] = "(" THEN OccursAt(line, CapText, i) /\ ValidFrom(line, i + 4)
    ELSE IF line[i] \in {")", "*"} THEN FALSE
    ELSE ValidFrom(line, i + 1)

RECURSIVE ProgFrom(_, _)
ProgFrom(line, i) ==
    IF i > Len(line) THEN <<>>
    ELSE IF line[i] = "(" THEN <<"CAP">> \o ProgFrom(line, i + 4)
    ELSE IF line[i] = "^" THEN <<"BOT">> \o ProgFrom(line, i + 1)
    ELSE IF line[i] = "$" THEN <<"EOT">> \o ProgFrom(line, i + 1)
    ELSE IF line[i] = "." THEN <<"ANY">> \o ProgFrom(line, i + 1)
    ELSE <<line[i]>> \o ProgFrom(line, i + 1)

\* regexp.Compile succeeds on line
CompileOk(line) == ValidFrom(line, 1)

\* regexp.MustCompile(line), where it does not panic
MustCompile(line) == [expr |-> line, prog |-> ProgFrom(line, 1)]

NoMatch == [ok |-> FALSE, groups |-> <<>>]

\* The match of prog[k..] against s that starts at pos and that a backtracking
\* matcher finds first (leftmost-first semantics: the group is greedy).
RECURSIVE MatchHere(_, _, _, _)
RECURSIVE TryCap(_, _, _, _, _)
MatchHere(prog, k, s, pos) ==
    IF k > Len(prog) THEN [ok |-> TRUE, groups |-> <<>>]
    ELSE IF prog[k] = "BOT" THEN
        IF pos = 1 THEN MatchHere(prog, k + 1, s, pos) ELSE NoMatch
    ELSE IF prog[k] = "EOT" THEN
        IF pos = Len(s) + 1 THEN MatchHere(prog, k + 1, s, pos) ELSE NoMatch
    ELSE IF prog[k] = "CAP" THEN TryCap(prog, k, s, pos, Len(s) + 1)
    ELSE IF prog[k] = "ANY" THEN
        IF pos <= Len(s) /\ s[pos] # "\n"
        THEN MatchHere(prog, k + 1, s, pos + 1) ELSE NoMatch
    ELSE IF pos <= Len(s) /\ s[pos] = prog[k] THEN MatchHere(prog, k + 1, s, pos + 1)
    ELSE NoMatch

\* The group prog[k] takes s[pos..e-1], the longest e first.
TryCap(prog, k, s, pos, e) ==
    IF e < pos THEN NoMatch
    ELSE LET rest == MatchHere(prog, k + 1, s, e)
         IN  IF rest.ok
             THEN [ok |-> TRUE, groups |-> <<SubSeq(s, pos, e - 1)>> \o rest.groups]
             ELSE TryCap(prog, k, s, pos, e - 1)

RECURSIVE SearchFrom(_, _, _)
SearchFrom(prog, s, start) ==
    IF start > Len(s) + 1 THEN NoMatch
    ELSE LET here == MatchHere(prog, 1, s, start)
         IN  IF here.ok THEN here ELSE SearchFrom(prog, s, start + 1)

\* re.FindStringSubmatch(s): ok is "the result is not nil", groups is the
\* result without its element 0 (matches[1:]).
FindStringSubmatch(re, s) == SearchFrom(re.prog, s, 1)

\* re.MatchString(s): the expression matches somewhere in s.
MatchString(re, s) == FindStringSubmatch(re, s).ok

(***************************************************************************)
(* ReadReplacersFromFile.  The state of its loop is the array replacers,   *)
(* the flag readoriginal and whether the call has panicked.                *)
(***************************************************************************)
\* The loop started with the flag set, as if an original had been read.
ParserStartReading == [replacers |-> <<>>, readoriginal |-> TRUE, panicked |-> FALSE]

ParserStart == [replacers |-> <<>>, readoriginal |-> FALSE, panicked |-> FALSE]

\* replacers[len(replacers)-1].replacements = append(..., line)
AppendReplacement(replacers, line) ==
    [replacers EXCEPT ![Len(replacers)].replacements = Append(@, line)]

\* The variant of the loop body in which a section holds one replacement:
\* the flag rolls over after the line that follows the original.
ParseLineRollOver(st, line) ==
    IF HasPrefix(line, <<"#">>) THEN st
    ELSE IF Len(line) = 0 THEN [st EXCEPT !.readoriginal = FALSE]
    ELSE IF st.readoriginal = FALSE THEN
        IF CompileOk(line)
        THEN [st EXCEPT !.replacers = Append(@, [original |-> MustCompile(line),
                                                  replacements |-> <<>>]),
                        !.readoriginal = TRUE]
        ELSE [st EXCEPT !.panicked = TRUE]
    ELSE IF Len(st.replacers) = 0 THEN [st EXCEPT !.panicked = TRUE]
    ELSE [st EXCEPT !.replacers = AppendReplacement(@, line), !.readoriginal = FALSE]

\* One iteration of the loop: the switch on the line just read.
ParseLine(st, line) ==
    IF HasPrefix(line, <<"#">>) THEN st
    ELSE IF Len(line) = 0 THEN [st EXCEPT !.readoriginal = FALSE]
    ELSE IF st.readoriginal = FALSE THEN
        IF CompileOk(line)
        THEN [st EXCEPT !.replacers = Append(@, [original |-> MustCompile(line),
                                                  replacements |-> <<>>]),
                        !.readoriginal = TRUE]
        ELSE [st EXCEPT !.panicked = TRUE]
    ELSE IF Len(st.replacers) = 0 THEN [st EXCEPT !.panicked = TRUE]
    ELSE [st EXCEPT !.replacers = AppendReplacement(@, line)]

\* The whole loop over the lines i.. of a file; it ends at a panic.
RECURSIVE ReadLoop(_, _, _)
ReadLoop(st, lines, i) ==
    IF i > Len(lines) \/ st.panicked THEN st
    ELSE ReadLoop(ParseLine(st, lines[i]), lines, i + 1)

\* ReadReplacersFromFile(path), lines being the lines of the file at path.
ReadReplacersFromFile(lines) == ReadLoop(ParserStart, lines, 1)

(***************************************************************************)
(* Eliza.RespondTo.                                                        *)
(***************************************************************************)
\* The generic response of the last line of RespondTo.
Fallback == <<"I", " ", "d", "o", "n", "'", "t", " ", "k", "n", "o", "w", " ", "w", "h", "a", "t", " ", "t", "o", " ", "s", "a", "y", ".">>

\* The character class of the expression boundaries: [\s,.?!]
IsBoundary(c) == c \in {" ", "\t", "\n", "\f", "\r", ",", ".", "?", "!"}

\* boundaries.Split(s, -1) with the tokens that are empty left out.
RECURSIVE SplitNonEmptyFrom(_, _, _)
SplitNonEmptyFrom(s, i, token) ==
    IF i > Len(s) THEN (IF token = <<>> THEN <<>> ELSE <<token>>)
    ELSE IF IsBoundary(s[i])
         THEN (IF token = <<>> THEN <<>> ELSE <<token>>) \o SplitNonEmptyFrom(s, i + 1, <<>>)
    ELSE SplitNonEmptyFrom(s, i + 1, Append(token, s[i]))

SplitNonEmpty(s) == SplitNonEmptyFrom(s, 1, <<>>)

\* boundaries.Split(s, -1): the text between the maximal runs of boundary
\* characters, with an empty token before a run that starts s and after a
\* run that ends s; the empty string gives one empty token.
RECURSIVE SplitFrom(_, _, _)
SplitFrom(s, i, token) ==
    IF i > Len(s) THEN <<token>>
    ELSE IF IsBoundary(s[i])
         THEN IF i > 1 /\ IsBoundary(s[i - 1])
              THEN SplitFrom(s, i + 1, token)
              ELSE <<token>> \o SplitFrom(s, i + 1, <<>>)
    ELSE SplitFrom(s, i + 1, Append(token, s[i]))

Split(s) == SplitFrom(s, 1, <<>>)

\* A range loop that stops at the first replacer, from index k on, whose
\* original matches s: its index, or 0 when the loop runs to its end.
RECURSIVE FirstMatching(_, _, _)
FirstMatching(replacers, s, k) ==
    IF k > Len(replacers) THEN 0
    ELSE IF MatchString(replacers[k].original, s) THEN k
    ELSE FirstMatching(replacers, s, k + 1)

\* The same loop without its return: the last matching replacer is kept.
RECURSIVE LastMatching(_, _, _)
LastMatching(replacers, s, k) ==
    IF k > Len(replacers) THEN 0
    ELSE LET later == LastMatching(replacers, s, k + 1)
         IN  IF later # 0 THEN later
             ELSE IF MatchString(replacers[k].original, s) THEN k ELSE 0

MatchedResponseLast(responses, in) == LastMatching(responses, in, 1)

\* The loop started one element late: the first response is never tried.
MatchedResponseSkipFirst(responses, in) == FirstMatching(responses, in, 2)

\* The response the outer loop of RespondTo stops at.
MatchedResponse(responses, in) == FirstMatching(responses, in, 1)

\* A substitution applies only when its original matches the token from its
\* first to its last character.
MatchedSubstitutionWhole(substitutions, token) ==
    FirstMatching([k \in 1..Len(substitutions) |->
                     [substitutions[k] EXCEPT
                        !.original.prog = <<"BOT">> \o @ \o <<"EOT">>]],
                  token, 1)

\* The substitution the innermost loop of RespondTo breaks at.
MatchedSubstitution(substitutions, token) == FirstMatching(substitutions, token, 1)

\* The innermost loop without its break: every substitution, in order, is
\* tried on what the token has become.
RECURSIVE ChainFrom(_, _, _)
ChainFrom(substitutions, token, k) ==
    IF k > Len(substitutions) THEN {token}
    ELSE IF MatchString(substitutions[k].original, token)
         THEN UNION {ChainFrom(substitutions, replacement, k + 1) :
                        replacement \in Range(substitutions[k].replacements)}
    ELSE ChainFrom(substitutions, token, k + 1)

TokenOutcomesChained(substitutions, token) == ChainFrom(substitutions, token, 1)

\* The values tokens[t] can have after the innermost loop: the token itself
\* when no substitution matches, else any replacement of the substitution
\* matched.  No value when that substitution has no replacement: rand.Intn(0)
\* panics.
TokenOutcomes(substitutions, token) ==
    LET k == MatchedSubstitution(substitutions, token)
    IN  IF k = 0 THEN {token} ELSE Range(substitutions[k].replacements)

\* The values of tokens after the loop over the tokens t.. of a group.
RECURSIVE TokenLoop(_, _, _)
TokenLoop(substitutions, tokens, t) ==
    IF t > Len(tokens) THEN {<<>>}
    ELSE {<<first>> \o rest : first \in TokenOutcomes(substitutions, tokens[t]),
                              rest \in TokenLoop(substitutions, tokens, t + 1)}

\* For the captured groups m.. : the token arrays the loop over the groups
\* can produce, one array a group.
RECURSIVE GroupLoop(_, _, _)
GroupLoop(substitutions, groups, m) ==
    IF m > Len(groups) THEN {<<>>}
    ELSE {<<tokens>> \o rest : tokens \in TokenLoop(substitutions, Split(groups[m]), 1),
                               rest \in GroupLoop(substitutions, groups, m + 1)}

\* strings.Join(tokens, " "): the text put in place of a placeholder.
Reflected(tokens) == Join(tokens, <<" ">>)

\* "$"+strconv.Itoa(m+1), m+1 being the number of the group.
Placeholder(number) == <<"$">> \o Itoa(number)

\* output = strings.Replace(output, "$"+strconv.Itoa(m+1), ..., -1) for the
\* groups number.. in turn.
RECURSIVE Fill(_, _, _)
Fill(output, reflected, number) ==
    IF number > Len(reflected) THEN output
    ELSE Fill(Replace(output, Placeholder(number), reflected[number]),
              reflected, number + 1)

NoLocals == [template |-> <<>>, groups |-> <<>>, tokens |-> <<>>, reflected |-> <<>>]

\* me.RespondTo(in): every way the call can end.  outcome is "fallback" (the
\* last line), "reply" (the return inside the loop) or "panic"; template is
\* the response selected, groups is matches[1:], tokens the token arrays
\* after substitution and reflected the joined tokens of each group.
RespondTo(eliza, in) ==
    LET k == MatchedResponse(eliza.responses, in)
    IN  IF k = 0 THEN {[outcome |-> "fallback", output |-> Fallback] @@ NoLocals}
        ELSE LET response == eliza.responses[k]
                 groups == FindStringSubmatch(response.original, in).groups
                 arrays == GroupLoop(eliza.substitutions, groups, 1)
             IN  IF Len(response.replacements) = 0 \/ arrays = {}
                 THEN {[outcome |-> "panic", output |-> <<>>] @@ NoLocals}
                 ELSE {[outcome |-> "reply",
                        output |-> Fill(template,
                                        [m \in 1..Len(tokens) |-> Reflected(tokens[m])], 1),
                        template |-> template,
                        groups |-> groups,
                        tokens |-> tokens,
                        reflected |-> [m \in 1..Len(tokens) |-> Reflected(tokens[m])]]
                       : template \in Range(response.replacements), tokens \in arrays}

(***************************************************************************)
(* The rule files and the inputs of the model.                             *)
(***************************************************************************)
Blank == <<>>
Comment == <<"#", "c">>

\* Response files.  RulesA: two sections, the second with two groups.
RulesA == << Comment,
             <<"m", "(", ".", "*", ")">>,
             <<"a", "$", "1">>,
             <<"~", "~", "b", "~", "~", "$", "1">>,
             Blank,
             <<"(", ".", "*", ")", "y", "(", ".", "*", ")">>,
             <<"$", "2", "c", "$", "1">>,
             <<"$", "1", "0", "$", "3">> >>
\* RulesB: a section without a replacement line.
RulesB == << <<"^", "y", "$">>, <<"d">>, Blank, Blank, <<".", "y">> >>
\* RulesC: no section.
RulesC == << Comment >>
\* RulesD: an original that is no regular expression.
RulesD == << <<"(">>, <<"d">> >>
\* RulesE: the whole input is the one group.
RulesE == << <<"(", ".", "*", ")">>, <<"$", "1">> >>

ResponseFiles == {RulesA, RulesB, RulesC, RulesD, RulesE}

\* Substitution files.
SubsA == << <<"m", "y">>, <<"u", "r">>, Blank,
            <<"y">>, <<"i">>, <<"u">> >>
SubsB == << <<"^", "m", "y", "$">>, <<"u", "r">> >>
SubsC == << <<"m">> >>
SubsD == << >>
\* SubsE: the replacement of the first section matches the second.
SubsE == << <<"m">>, <<"y">>, Blank, <<"y">>, <<"i">> >>

SubstitutionFiles == {SubsA, SubsB, SubsC, SubsD, SubsE}

InputChars == {"m", "y", " ", "."}
Inputs == SeqsUpTo(InputChars, MaxInputLen)

\* The lines of the files read under SpecParse.
FileLines == {Blank, <<"#">>, <<"a">>, <<"b">>, <<"(">>}
Files == SeqsUpTo(FileLines, MaxLines)

(***************************************************************************)
(* State.                                                                  *)
(***************************************************************************)
VARIABLES
    file,          \* SpecParse: the lines of the file being read
    pos,           \* the number of the next line scanner.Scan() yields
    replacers,     \* ReadReplacersFromFile: its local array
    readoriginal,  \* ReadReplacersFromFile: its flag
    ppc,           \* "idle", "reading", "returned" or "panicked"
    responseFile,  \* Spec: the lines of the file at responsePath
    substitutionFile, \* the lines of the file at substitutionPath
    phase,         \* "idle", "start", "crashed", "ready", "scanned" or "responded"
    eliza,         \* the Eliza value: responses and substitutions
    input,         \* the argument of the last RespondTo call
    result,        \* how that call ended
    calls          \* the number of RespondTo calls made

parserVars == <<file, pos, replacers, readoriginal, ppc>>
elizaVars == <<responseFile, substitutionFile, phase, eliza, input, result, calls>>
vars == <<file, pos, replacers, readoriginal, ppc,
          responseFile, substitutionFile, phase, eliza, input, result, calls>>

NoResult == [outcome |-> "none", output |-> <<>>] @@ NoLocals
NoEliza == [responses |-> <<>>, substitutions |-> <<>>]

ParserIdle ==
    /\ file = <<>>
    /\ pos = 1
    /\ replacers = <<>>
    /\ readoriginal = FALSE
    /\ ppc = "idle"

ElizaIdle ==
    /\ responseFile = <<>>
    /\ substitutionFile = <<>>
    /\ phase = "idle"
    /\ eliza = NoEliza
    /\ input = <<>>
    /\ result = NoResult
    /\ calls = 0

(***************************************************************************)
(* SpecParse: one call of ReadReplacersFromFile, a line a step.            *)
(***************************************************************************)
InitParse ==
    /\ file \in Files
    /\ pos = 1
    /\ replacers = ParserStart.replacers
    /\ readoriginal = ParserStart.readoriginal
    /\ ppc = "reading"
    /\ ElizaIdle

\* scanner.Scan() yields a line and the switch handles it.
ScanLine ==
    /\ ppc = "reading"
    /\ pos <= Len(file)
    /\ LET st == ParseLine([replacers |-> replacers, readoriginal |-> readoriginal,
                            panicked |-> FALSE], file[pos])
       IN  /\ replacers' = st.replacers
           /\ readoriginal' = st.readoriginal
           /\ ppc' = IF st.panicked THEN "panicked" ELSE "reading"
    /\ pos' = pos + 1
    /\ UNCHANGED <<file, responseFile, substitutionFile, phase, eliza, input, result, calls>>

\* scanner.Scan() is false: return replacers.
ReturnReplacers ==
    /\ ppc = "reading"
    /\ pos > Len(file)
    /\ ppc' = "returned"
    /\ UNCHANGED <<file, pos, replacers, readoriginal,
                   responseFile, substitutionFile, phase, eliza, input, result, calls>>

NextParse == ScanLine \/ ReturnReplacers

SpecParse == InitParse /\ [][NextParse]_vars

(***************************************************************************)
(* Spec: main.  ElizaFromFiles, then RespondTo for every line of input.    *)
(***************************************************************************)
Init ==
    /\ responseFile \in ResponseFiles
    /\ substitutionFile \in SubstitutionFiles
    /\ phase = "start"
    /\ eliza = NoEliza
    /\ input = <<>>
    /\ result = NoResult
    /\ calls = 0
    /\ ParserIdle

\* eliza := ElizaFromFiles(responsePath, substitutionPath)
ElizaFromFiles ==
    /\ phase = "start"
    /\ LET r == ReadReplacersFromFile(responseFile)
           s == ReadReplacersFromFile(substitutionFile)
       IN  IF r.panicked \/ s.panicked
           THEN /\ phase' = "crashed"
                /\ eliza' = eliza
           ELSE /\ phase' = "ready"
                /\ eliza' = [responses |-> r.replacers, substitutions |-> s.replacers]
    /\ UNCHANGED <<responseFile, substitutionFile, input, result, calls, parserVars>>

\* scanner.Scan() of the loop of main: the user has typed a line.  It is
\* false at the end of standard input, and the program ends.
Scan ==
    /\ phase = "ready"
    /\ calls < MaxCalls
    /\ \E in \in Inputs : input' = in
    /\ phase' = "scanned"
    /\ UNCHANGED <<responseFile, substitutionFile, eliza, result, calls, parserVars>>

\* The call with a responder that keeps track of what it has said: the
\* response selected is taken out of the replacements of its rule.
RespondConsuming ==
    /\ phase = "scanned"
    /\ \E r \in RespondTo(eliza, input) :
          /\ result' = r
          /\ eliza' =
                IF r.outcome = "reply"
                THEN [eliza EXCEPT
                        !.responses[MatchedResponse(eliza.responses, input)].replacements =
                            SelectSeq(@, LAMBDA a : a # r.template)]
                ELSE eliza
    /\ phase' = "responded"
    /\ calls' = calls + 1
    /\ UNCHANGED <<responseFile, substitutionFile, input, parserVars>>

\* fmt.Println("Eliza:", eliza.RespondTo(scanner.Text()))
Respond ==
    /\ phase = "scanned"
    /\ \E r \in RespondTo(eliza, input) : result' = r
    /\ phase' = "responded"
    /\ calls' = calls + 1
    /\ UNCHANGED <<responseFile, substitutionFile, eliza, input, parserVars>>

\* fmt.Print("You: "), the post statement of the loop: the line and the
\* response of the iteration are gone.  A panic has ended the program.
Prompt ==
    /\ phase = "responded"
    /\ result.outcome # "panic"
    /\ phase' = "ready"
    /\ input' = <<>>
    /\ result' = NoResult
    /\ UNCHANGED <<responseFile, substitutionFile, eliza, calls, parserVars>>

Next == ElizaFromFiles \/ Scan \/ Respond \/ Prompt

Spec == Init /\ [][Next]_vars

(***************************************************************************)
(* Properties of RespondTo, checked under Spec.                            *)
(***************************************************************************)
Replied == phase = "responded" /\ result.outcome = "reply"

\* Does the original of response k match the input ?
ResponseMatches(k) == MatchString(eliza.responses[k].original, input)

\* C1: when the input matches the pattern of response rule k and of no rule
\* before k, a reply is built from a candidate of rule k: the template is one
\* of rule k's candidates, the groups are those rule k's pattern captures,
\* and the reply is that template filled.
C1_FirstMatchWins ==
    Replied =>
        \A k \in 1..Len(eliza.responses) :
            (ResponseMatches(k) /\ \A j \in 1..(k - 1) : ~ResponseMatches(j)) =>
                /\ result.template \in Range(eliza.responses[k].replacements)
                /\ result.groups =
                      FindStringSubmatch(eliza.responses[k].original, input).groups
                /\ result.output = Fill(result.template, result.reflected, 1)

\* A reply to an input that two response rules match.
C1_Witness ==
    /\ Replied
    /\ Len(eliza.responses) >= 2
    /\ ResponseMatches(1)
    /\ ResponseMatches(2)

\* C2: a call of RespondTo on an engine that was loaded without error never
\* ends in a runtime fault.
C2_RespondNeverFails ==
    phase = "responded" => result.outcome # "panic"

\* C4: when no response rule matches the input (the rule list may be empty)
\* RespondTo returns exactly the fixed phrase, and the fallback path is taken
\* in no other case.
C4_FallbackIffNoMatch ==
    phase = "responded" =>
        LET unmatched == \A k \in 1..Len(eliza.responses) : ~ResponseMatches(k)
        IN  /\ unmatched => (result.outcome = "fallback" /\ result.output = Fallback)
            /\ result.outcome = "fallback" => unmatched

\* The fallback taken with a response rule list that is not empty.
C4_Witness ==
    /\ phase = "responded"
    /\ result.outcome = "fallback"
    /\ result.output = Fallback
    /\ Len(eliza.responses) >= 2

(***************************************************************************)
(* The reflection pass: the tokens of a captured group before and after.   *)
(***************************************************************************)
\* The groups of the reply and the positions of the tokens of group m.
GroupNumbers == 1..Len(result.groups)
TokenNumbers(m) == 1..Len(result.tokens[m])

\* Token t of group m as split, before any substitution.
TokenBefore(m, t) == Split(result.groups[m])[t]

\* The text of a substitution pattern between its anchors: the patterns of
\* the substitution files are a literal word, anchored or not.
StartAnchored(expr) == Len(expr) >= 1 /\ expr[1] = "^"
EndAnchored(expr) == Len(expr) >= 1 /\ expr[Len(expr)] = "$"
Word(expr) ==
    SubSeq(expr, IF StartAnchored(expr) THEN 2 ELSE 1,
                 IF EndAnchored(expr) THEN Len(expr) - 1 ELSE Len(expr))
LiteralWord(expr) == Range(Word(expr)) \cap {"^", "$", ".", "(", ")", "*"} = {}

\* The word of the pattern is the whole token.
WordIsToken(expr, token) == token = Word(expr)

\* The pattern matches at some place of the token: its word occurs there,
\* at the start when the pattern starts with ^, at the end when it ends with $.
WordInToken(expr, token) ==
    \E i \in 1..(Len(token) + 1) :
        /\ OccursAt(token, Word(expr), i)
        /\ StartAnchored(expr) => i = 1
        /\ EndAnchored(expr) => i + Len(Word(expr)) - 1 = Len(token)

LiteralSubstitutions ==
    \A k \in 1..Len(eliza.substitutions) : LiteralWord(eliza.substitutions[k].original.expr)

\* C5, as stated: a token is replaced only when the word of a substitution
\* pattern is the whole token; a token that only contains the word passes
\* through unchanged.
C5_WholeTokenOnly ==
    (Replied /\ LiteralSubstitutions) =>
        \A m \in GroupNumbers : \A t \in TokenNumbers(m) :
            (\A k \in 1..Len(eliza.substitutions) :
                ~WordIsToken(eliza.substitutions[k].original.expr, TokenBefore(m, t)))
            => result.tokens[m][t] = TokenBefore(m, t)

\* C5, amended: a token is replaced when a substitution pattern matches at
\* some place of the token, by a candidate of the first such rule, also when
\* the match is a proper part of the token; only a token in which no
\* substitution pattern matches anywhere passes through unchanged.
C5_ReplacedWhenMatchAnywhere ==
    (Replied /\ LiteralSubstitutions) =>
        \A m \in GroupNumbers : \A t \in TokenNumbers(m) :
            LET hits == {k \in 1..Len(eliza.substitutions) :
                            WordInToken(eliza.substitutions[k].original.expr,
                                        TokenBefore(m, t))}
            IN  IF hits = {}
                THEN result.tokens[m][t] = TokenBefore(m, t)
                ELSE \E k \in hits :
                        /\ \A j \in hits : k <= j
                        /\ result.tokens[m][t] \in
                              Range(eliza.substitutions[k].replacements)

\* A token that contains the word of an unanchored pattern as a proper part
\* has been replaced.
C5_Witness ==
    /\ Replied
    /\ \E m \in GroupNumbers : \E t \in TokenNumbers(m) :
          \E k \in 1..Len(eliza.substitutions) :
              /\ WordInToken(eliza.substitutions[k].original.expr, TokenBefore(m, t))
              /\ ~WordIsToken(eliza.substitutions[k].original.expr, TokenBefore(m, t))
              /\ Len(TokenBefore(m, t)) > Len(Word(eliza.substitutions[k].original.expr))
              /\ result.tokens[m][t] # TokenBefore(m, t)

IsSpace(c) == c \in {" ", "\t", "\n", "\f", "\r"}
NonEmpty(token) == token # <<>>

\* C6: the text substituted for a captured group is its non-empty tokens
\* joined by one space, and neither starts nor ends with whitespace.
C6_ReflectedClean ==
    Replied =>
        \A m \in GroupNumbers :
            LET text == result.reflected[m]
            IN  /\ text = Join(SelectSeq(result.tokens[m], NonEmpty), <<" ">>)
                /\ text # <<>> => (~IsSpace(text[1]) /\ ~IsSpace(text[Len(text)]))

\* C7: a reply does not contain the escape marker.
C7_NoMarker ==
    Replied => \A i \in 1..Len(result.output) : ~OccursAt(result.output, <<"~", "~">>, i)

\* The end of the maximal run of digits of s that starts at i (i - 1: none).
RECURSIVE DigitsEnd(_, _)
DigitsEnd(s, i) ==
    IF i <= Len(s) /\ s[i] \in Range(Digits) THEN DigitsEnd(s, i + 1) ELSE i - 1

\* The template with each placeholder, a $ and its whole numeral, replaced by
\* the text of the group of that number, and left as it is when there is no
\* group of that number.
RECURSIVE ExactFill(_, _, _)
ExactFill(template, reflected, i) ==
    IF i > Len(template) THEN <<>>
    ELSE IF template[i] = "$" THEN
        LET j == DigitsEnd(template, i + 1)
            numeral == SubSeq(template, i + 1, j)
            ks == {k \in 1..Len(reflected) : Itoa(k) = numeral}
        IN  (IF ks = {} THEN <<"$">> \o numeral ELSE reflected[CHOOSE k \in ks : TRUE])
            \o ExactFill(template, reflected, j + 1)
    ELSE <<template[i]>> \o ExactFill(template, reflected, i + 1)

\* C8: placeholders are replaced by exact numeral: the reply is the template
\* with every $k, k the whole numeral, replaced by group k, and $k unreplaced
\* when k is greater than the number of groups.
C8_ExactNumeral ==
    Replied => result.output = ExactFill(result.template, result.reflected, 1)

\* No token of group m matches a substitution pattern.
NoTokenMatches(m) ==
    \A t \in 1..Len(Split(result.groups[m])) :
        \A k \in 1..Len(eliza.substitutions) :
            ~MatchString(eliza.substitutions[k].original, TokenBefore(m, t))

\* strings.Fields: the maximal runs of characters that are not whitespace.
RECURSIVE FieldsFrom(_, _, _)
FieldsFrom(s, i, field) ==
    IF i > Len(s) THEN (IF field = <<>> THEN <<>> ELSE <<field>>)
    ELSE IF IsSpace(s[i])
         THEN (IF field = <<>> THEN <<>> ELSE <<field>>) \o FieldsFrom(s, i + 1, <<>>)
    ELSE FieldsFrom(s, i + 1, Append(field, s[i]))

\* Whitespace normalization: runs of whitespace become one space, and the
\* whitespace at the start and at the end is dropped.
NormalizeSpace(s) == Join(FieldsFrom(s, 1, <<>>), <<" ">>)

\* The text with every maximal run of boundary characters made one space.
RECURSIVE RunsToSpace(_, _)
RunsToSpace(s, i) ==
    IF i > Len(s) THEN <<>>
    ELSE IF ~IsBoundary(s[i]) THEN <<s[i]>> \o RunsToSpace(s, i + 1)
    ELSE IF i > 1 /\ IsBoundary(s[i - 1]) THEN RunsToSpace(s, i + 1)
    ELSE <<" ">> \o RunsToSpace(s, i + 1)

\* C9, as stated: when no token of a group matches a substitution pattern,
\* the reflected text equals the group up to whitespace normalization.
C9_EqualUpToWhitespace ==
    Replied =>
        \A m \in GroupNumbers :
            NoTokenMatches(m) =>
                NormalizeSpace(result.reflected[m]) = NormalizeSpace(result.groups[m])

\* C9, amended: when no token of a group matches a substitution pattern, the
\* reflected text is the group with every maximal run of boundary characters
\* (whitespace , . ? !) replaced by one space.
C9_EqualUpToBoundaryRuns ==
    Replied =>
        \A m \in GroupNumbers :
            NoTokenMatches(m) => result.reflected[m] = RunsToSpace(result.groups[m], 1)

\* A group with punctuation, reflected with substitution rules of which none
\* matches a token.
C9_Witness ==
    /\ Replied
    /\ Len(eliza.substitutions) >= 1
    /\ \E m \in GroupNumbers :
          /\ NoTokenMatches(m)
          /\ "." \in Range(result.groups[m])
          /\ result.reflected[m] # result.groups[m]

\* Does the original of substitution k match the text ?
SubstitutionMatches(k, text) == MatchString(eliza.substitutions[k].original, text)

\* C12: each token is handled once, by the first substitution rule, in stored
\* order, whose pattern matches it: the token becomes one of that rule's
\* candidates as it stands, also when a later rule matches the token or the
\* candidate; a token that no rule matches passes through unchanged.
C12_FirstSubstitutionOnce ==
    Replied =>
        \A m \in GroupNumbers :
            /\ Len(result.tokens[m]) = Len(Split(result.groups[m]))
            /\ \A t \in TokenNumbers(m) :
                   \/ /\ \A k \in 1..Len(eliza.substitutions) :
                             ~SubstitutionMatches(k, TokenBefore(m, t))
                      /\ result.tokens[m][t] = TokenBefore(m, t)
                   \/ \E k \in 1..Len(eliza.substitutions) :
                         /\ SubstitutionMatches(k, TokenBefore(m, t))
                         /\ \A j \in 1..(k - 1) : ~SubstitutionMatches(j, TokenBefore(m, t))
                         /\ result.tokens[m][t] \in
                               Range(eliza.substitutions[k].replacements)

\* A token that two rules match has become a candidate of the first, and the
\* second rule matches that candidate too.
C12_Witness ==
    /\ Replied
    /\ \E m \in GroupNumbers : \E t \in TokenNumbers(m) :
          \E j, k \in 1..Len(eliza.substitutions) :
              /\ j < k
              /\ \A i \in 1..(j - 1) : ~SubstitutionMatches(i, TokenBefore(m, t))
              /\ SubstitutionMatches(j, TokenBefore(m, t))
              /\ SubstitutionMatches(k, TokenBefore(m, t))
              /\ result.tokens[m][t] \in Range(eliza.substitutions[j].replacements)
              /\ SubstitutionMatches(k, result.tokens[m][t])
              /\ result.tokens[m][t] \notin Range(eliza.substitutions[k].replacements)

\* The engine as ElizaFromFiles built it from the two files.
LoadedEliza ==
    [responses |-> ReadReplacersFromFile(responseFile).replacers,
     substitutions |-> ReadReplacersFromFile(substitutionFile).replacers]

\* C11: after any number of RespondTo calls the response rules and the
\* substitution rules are the ones that were loaded (same rules, same order,
\* same candidates), and every call ends in one of the ways the loaded rules
\* give for its input, whatever was processed before.
C11_EngineUnchanged ==
    phase \in {"ready", "scanned", "responded"} =>
        /\ eliza = LoadedEliza
        /\ phase = "responded" => result \in RespondTo(LoadedEliza, input)

\* A second call has replied, on an engine with several rules of each kind.
C11_Witness ==
    /\ Replied
    /\ calls = 2
    /\ Len(eliza.responses) >= 2
    /\ Len(eliza.substitutions) >= 2

(***************************************************************************)
(* Properties of ReadReplacersFromFile, checked under SpecParse.           *)
(***************************************************************************)
\* C3: a rule set that is returned holds no rule with an empty candidate
\* list: a section without a candidate line is an error.
C3_EmptySectionRejected ==
    ppc = "returned" => \A k \in 1..Len(replacers) : replacers[k].replacements # <<>>

IsComment(line) == line # <<>> /\ line[1] = "#"
NotComment(line) == ~IsComment(line)

\* The maximal runs of non-blank lines of lines i.. , run being the run so far.
RECURSIVE RunsFrom(_, _, _)
RunsFrom(lines, i, run) ==
    IF i > Len(lines) THEN (IF run = <<>> THEN <<>> ELSE <<run>>)
    ELSE IF lines[i] = <<>>
         THEN (IF run = <<>> THEN <<>> ELSE <<run>>) \o RunsFrom(lines, i + 1, <<>>)
    ELSE RunsFrom(lines, i + 1, Append(run, lines[i]))

\* The rules a file stands for: comments taken out, one rule for each maximal
\* run of non-blank lines, its first line the pattern, the others the candidates.
RulesOf(lines) ==
    LET runs == RunsFrom(SelectSeq(lines, NotComment), 1, <<>>)
    IN  [k \in 1..Len(runs) |-> [pattern |-> runs[k][1], candidates |-> Tail(runs[k])]]

\* The lines read so far.
LinesRead == SubSeq(file, 1, pos - 1)

\* C10: the rules read are, in order, one rule for each maximal run of
\* non-blank lines (comments ignored), with the run's first line as pattern
\* and the other lines, in order, as candidates; a new pattern is expected
\* exactly at the start and after a blank line.
C10_RulesInFileOrder ==
    ppc \in {"reading", "returned"} =>
        /\ [k \in 1..Len(replacers) |->
               [pattern |-> replacers[k].original.expr,
                candidates |-> replacers[k].replacements]] = RulesOf(LinesRead)
        /\ readoriginal =
              LET read == SelectSeq(LinesRead, NotComment)
              IN  read # <<>> /\ read[Len(read)] # <<>>

\* A file of two sections, the first with a comment between its pattern and
\* its candidate, has been read to its end.
C10_Witness ==
    /\ ppc = "returned"
    /\ Len(file) = 5
    /\ IsComment(file[2])
    /\ Len(replacers) = 2
    /\ Len(replacers[1].replacements) = 1

\* The line the last step read, and the lines read before it without the
\* comments.
LastLine == file[pos - 1]
ReadBefore == SelectSeq(SubSeq(file, 1, pos - 2), NotComment)

\* C13: while any file is read, readoriginal implies that the rule list is
\* not empty, so a candidate line always finds a last rule to be appended to:
\* the call panics only when a pattern line does not compile.  The first line
\* that is neither a comment nor blank, at the start or after a blank line,
\* is taken as the pattern of a new rule, never as a candidate.
C13_ParserInvariant ==
    /\ readoriginal => Len(replacers) > 0
    /\ ppc = "panicked" => (pos > 1 /\ ~CompileOk(LastLine) /\ ~readoriginal)
    /\ (/\ ppc \in {"reading", "returned"}
        /\ pos > 1
        /\ NotComment(LastLine)
        /\ LastLine # <<>>
        /\ (ReadBefore = <<>> \/ ReadBefore[Len(ReadBefore)] = <<>>))
       => /\ readoriginal
          /\ Len(replacers) > 0
          /\ replacers[Len(replacers)].original.expr = LastLine
          /\ replacers[Len(replacers)].replacements = <<>>

\* A candidate line has just been appended to the rule of a second section.
C13_Witness ==
    /\ ppc = "reading"
    /\ pos > 1
    /\ readoriginal
    /\ Len(replacers) = 2
    /\ replacers[2].replacements = <<LastLine>>
    /\ replacers[1].replacements # <<>>

=============================================================================
